---- MODULE Spec2Model ----
(***************************************************************************)
(* Model of mbp::arith_project_plugin::imp (src/src/qe/mbp/mbp_arith.cpp): *)
(* the literal and term linearizers, the projection driver, the row and    *)
(* definition reifiers, apply_projection and maximize.                     *)
(*                                                                         *)
(* Expressions are hash-consed in the program, so node identity is         *)
(* structural equality here.  An expression is a record                    *)
(*   [op |-> kind, n |-> integer payload, a |-> tuple of children].        *)
(* All arithmetic terms are integer sorted and all numerals are integers.  *)
(* The model_based_opt kernel and the model evaluator are not part of the  *)
(* file; they are modelled by their contract (see MboProject, MboMaximize, *)
(* Eval).                                                                  *)
(***************************************************************************)
EXTENDS Integers, Sequences, FiniteSets, TLC

\* ------------------------------------------------------------------ bounds
\* Model values of the host variables range over 0..MaxVal.
MaxVal == 2
\* An input list is one literal of LitPool followed by up to MaxPad copies
\* of PadLit.
MaxPad == 1

\* ------------------------------------------------------- expression DAG
Mk(o, k, args) == [op |-> o, n |-> k, a |-> args]
Num(k)      == Mk("num", k, <<>>)
Var(i)      == Mk("var", i, <<>>)        \* uninterpreted integer constant
BVar(i)     == Mk("bvar", i, <<>>)       \* uninterpreted Boolean constant
Und         == Mk("und", 0, <<>>)        \* arithmetic term the evaluator cannot reduce
Pred(e)     == Mk("pred", 0, <<e>>)      \* uninterpreted predicate p(e)
Add(e1, e2) == Mk("add", 0, <<e1, e2>>)
AddN(es)    == Mk("add", 0, es)
Sub(e1, e2) == Mk("sub", 0, <<e1, e2>>)
Neg(e)      == Mk("uminus", 0, <<e>>)
Mul(e1, e2) == Mk("mul", 0, <<e1, e2>>)
Ite(g, e1, e2) == Mk("ite", 0, <<g, e1, e2>>)
Mod(e1, e2) == Mk("mod", 0, <<e1, e2>>)
Idiv(e1, e2) == Mk("idiv", 0, <<e1, e2>>)
Le(e1, e2)  == Mk("le", 0, <<e1, e2>>)
Lt(e1, e2)  == Mk("lt", 0, <<e1, e2>>)
Ge(e1, e2)  == Mk("ge", 0, <<e1, e2>>)
Gt(e1, e2)  == Mk("gt", 0, <<e1, e2>>)
Eq(e1, e2)  == Mk("eq", 0, <<e1, e2>>)
Distinct(es) == Mk("distinct", 0, es)
Not(e)      == Mk("not", 0, <<e>>)
And(es)     == Mk("and", 0, es)
Or(es)      == Mk("or", 0, es)
NullE       == Mk("null", 0, <<>>)
FalseE      == Mk("false", 0, <<>>)

ArithOps == {"num", "var", "und", "add", "sub", "uminus", "mul", "ite", "mod", "idiv"}

\* a.is_int_real(e)
is_arith(e) == e.op \in ArithOps

\* mk_not of ast_util: a negation is not stacked on a negation.
mk_not(e) == IF e.op = "not" THEN e.a[1] ELSE Not(e)

RECURSIVE Subterms(_)
Subterms(e) ==
    {e} \cup UNION {Subterms(e.a[k]) : k \in 1..Len(e.a)}

\* ------------------------------------------------------- model evaluator
\* A value is <<"n", k>> (numeral), <<"b", 0 or 1>> (truth value) or
\* <<"u", 0>> (the evaluator did not produce a value).
NumV(k)  == <<"n", k>>
BoolV(t) == <<"b", IF t THEN 1 ELSE 0>>
UndV     == <<"u", 0>>
IsNumV(v)   == v[1] = "n"
IsTrueV(v)  == v = <<"b", 1>>
IsFalseV(v) == v = <<"b", 0>>

\* SMT-LIB div and mod for a non-zero divisor; the model interprets division
\* by zero as the identity on the dividend.
ModI(u, k) == IF k > 0 THEN u % k ELSE IF k < 0 THEN u % (0 - k) ELSE u
DivI(u, k) == IF k > 0 THEN u \div k ELSE IF k < 0 THEN 0 - (u \div (0 - k)) ELSE u

\* The value of an application of e.op to children of values v.
RECURSIVE SumV(_)
SumV(v) == IF v = <<>> THEN 0 ELSE v[1][2] + SumV(Tail(v))

EvalOp(e, v, M) ==
    LET allNum == \A k \in 1..Len(v) : v[k][1] = "n"
        allBool == \A k \in 1..Len(v) : v[k][1] = "b"
    IN  CASE e.op = "num" -> NumV(e.n)
          [] e.op = "var" -> NumV(M[e.n])
          [] e.op = "bvar" -> BoolV(TRUE)
          [] e.op = "und" -> UndV
          [] e.op = "false" -> BoolV(FALSE)
          [] e.op = "null" -> UndV
          [] e.op = "ite" ->
                IF IsTrueV(v[1]) THEN v[2] ELSE IF IsFalseV(v[1]) THEN v[3] ELSE UndV
          [] e.op = "and" ->
                IF \E k \in 1..Len(v) : IsFalseV(v[k]) THEN BoolV(FALSE)
                ELSE IF allBool THEN BoolV(TRUE) ELSE UndV
          [] e.op = "or" ->
                IF \E k \in 1..Len(v) : IsTrueV(v[k]) THEN BoolV(TRUE)
                ELSE IF allBool THEN BoolV(FALSE) ELSE UndV
          [] e.op = "not" -> IF allBool THEN BoolV(v[1][2] = 0) ELSE UndV
          [] e.op = "eq" -> IF allNum \/ allBool THEN BoolV(v[1][2] = v[2][2]) ELSE UndV
          [] OTHER ->
                IF ~allNum THEN UndV
                ELSE CASE e.op = "pred" -> BoolV(v[1][2] = 0)
                       [] e.op = "add" -> NumV(SumV(v))
                       [] e.op = "sub" -> NumV(v[1][2] - v[2][2])
                       [] e.op = "uminus" -> NumV(0 - v[1][2])
                       [] e.op = "mul" -> NumV(v[1][2] * v[2][2])
                       [] e.op = "mod" -> NumV(ModI(v[1][2], v[2][2]))
                       [] e.op = "idiv" -> NumV(DivI(v[1][2], v[2][2]))
                       [] e.op = "le" -> BoolV(v[1][2] <= v[2][2])
                       [] e.op = "lt" -> BoolV(v[1][2] < v[2][2])
                       [] e.op = "ge" -> BoolV(v[1][2] >= v[2][2])
                       [] e.op = "gt" -> BoolV(v[1][2] > v[2][2])
                       [] e.op = "distinct" ->
                            BoolV(\A k1, k2 \in 1..Len(v) : k1 # k2 => v[k1][2] # v[k2][2])

\* model_evaluator: the value of e under the model M (model completion on)
RECURSIVE Eval(_, _)
Eval(e, M) == EvalOp(e, [k \in 1..Len(e.a) |-> Eval(e.a[k], M)], M)

\* ------------------------------------------------------- MBO kernel state
\* The kernel hands out dense variable ids; id k is position k of `tids`
\* (the expression it abstracts) and of `vals` (its current value).
\* A row is  SUM coeff*var + coeff  <type>  0 ; rows of type mod / div define
\* the variable `id` with modulus `mod`.
Row(cs, k, ty, m, v) == [vars |-> cs, coeff |-> k, type |-> ty, mod |-> m, id |-> v]

RECURSIVE RowSum(_, _)
RowSum(cs, vals) ==
    IF cs = <<>> THEN 0
    ELSE cs[1][2] * vals[cs[1][1]] + RowSum(Tail(cs), vals)

\* The state the linearizers thread through their calls: the worklist fmls,
\* the tids map, the kernel (vals, rows) and a pending exception (err).
EmptyG(fs) == [fmls |-> fs, tids |-> <<>>, vals |-> <<>>, rows |-> <<>>, err |-> ""]

InTids(tids, e) == \E k \in 1..Len(tids) : tids[k] = e
TidOf(tids, e) == CHOOSE k \in 1..Len(tids) : tids[k] = e

\* mbo.add_var(r, is_int) followed by tids.insert(e, id)
add_var(g, e, r) ==
    [g EXCEPT !.tids = Append(@, e), !.vals = Append(@, r)]

\* mbo.add_constraint(coeffs, c, ty)
add_constraint(g, cs, k, ty) ==
    [g EXCEPT !.rows = Append(@, Row(cs, k, ty, 0, 0))]

\* tids.insert(t, mbo.add_mod(coeffs, c0, m)): a fresh variable whose value
\* is (SUM coeffs + c0) mod m, defined by a row of type mod.
add_mod(g, t, cs, k, m) ==
    [g EXCEPT !.tids = Append(@, t),
              !.vals = Append(@, ModI(RowSum(cs, g.vals) + k, m)),
              !.rows = Append(@, Row(cs, k, "mod", m, Len(g.vals) + 1))]

\* tids.insert(t, mbo.add_div(coeffs, c0, m))
add_div(g, t, cs, k, m) ==
    [g EXCEPT !.tids = Append(@, t),
              !.vals = Append(@, DivI(RowSum(cs, g.vals) + k, m)),
              !.rows = Append(@, Row(cs, k, "div", m, Len(g.vals) + 1))]

\* ------------------------------------------------------- accumulator
\* obj_map<expr, rational> ts, kept as a sequence of <<expr, coeff>> in
\* insertion order.
insert_mul(x, v, ts) ==
    IF \E k \in 1..Len(ts) : ts[k][1] = x
    THEN [k \in 1..Len(ts) |-> IF ts[k][1] = x THEN <<x, ts[k][2] + v>> ELSE ts[k]]
    ELSE Append(ts, <<x, v>>)

\* extract_coefficients: every key gets an MBO id (a fresh variable primed
\* with its model value when it has none); zero coefficients are dropped.
\* Result: [g, coeffs].
\* Variant: a key without a numeral value gets an id with value 0.
EnsureId_default(g, v, val) ==
    IF InTids(g.tids, v) THEN g
    ELSE IF ~IsNumV(val) THEN add_var(g, v, 0)
    ELSE add_var(g, v, val[2])

\* the MBO id of the key v, whose model value is val
EnsureId(g, v, val) ==
    IF InTids(g.tids, v) THEN g
    ELSE IF ~IsNumV(val) THEN [g EXCEPT !.err = "mbp evaluation was only partial"]
    ELSE add_var(g, v, val[2])

RECURSIVE extract_from(_, _, _, _)
ExtractRest(g1, ts, cs, M) ==
    IF g1.err # "" THEN [g |-> g1, coeffs |-> cs]
    ELSE extract_from(g1, Tail(ts),
                      IF ts[1][2] # 0
                      THEN Append(cs, <<TidOf(g1.tids, ts[1][1]), ts[1][2]>>)
                      ELSE cs, M)

extract_from(g, ts, cs, M) ==
    IF ts = <<>> \/ g.err # "" THEN [g |-> g, coeffs |-> cs]
    ELSE ExtractRest(EnsureId(g, ts[1][1], Eval(ts[1][1], M)), ts, cs, M)

extract_coefficients(g, ts, M) == extract_from(g, ts, <<>>, M)

\* ------------------------------------------------------- term linearizer
\* S = [g, ts, c]: the threaded state, the accumulator and the constant.
\* Every arm of the dispatch of linearize(.., mul, t, c, ..) is: something
\* done first, recursive calls on subterms in order, something done last.
\* LinArm names the arm taken (first match wins; the second mod arm of the
\* source repeats the guard of the first and is never taken).
LinArm(S, t, M) ==
    IF InTids(S.g.tids, t) THEN "tid"
    ELSE IF t.op = "mul" /\ t.a[1].op = "num" THEN "mul1"
    ELSE IF t.op = "mul" /\ t.a[2].op = "num" THEN "mul2"
    ELSE IF t.op = "uminus" THEN "uminus"
    ELSE IF t.op = "num" THEN "num"
    ELSE IF t.op = "add" THEN "add"
    ELSE IF t.op = "sub" THEN "sub"
    ELSE IF t.op = "ite"
         THEN LET val == Eval(t.a[1], M)
              IN  IF IsTrueV(val) THEN "ite_true"
                  ELSE IF IsFalseV(val) THEN "ite_false" ELSE "ite_throw"
    ELSE IF t.op \in {"mod", "idiv"} /\ t.a[2].op = "num" /\ t.a[2].n > 0 THEN "def"
    ELSE "opaque"

\* the recursive calls of the arm, as <<multiplier, subterm>> in call order
LinCalls(arm, mul, t) ==
    CASE arm = "mul1" -> <<(<<mul * t.a[1].n, t.a[2]>>)>>
      [] arm = "mul2" -> <<(<<mul * t.a[2].n, t.a[1]>>)>>
      [] arm = "uminus" -> <<(<<0 - mul, t.a[1]>>)>>
      [] arm = "add" -> [k \in 1..Len(t.a) |-> <<mul, t.a[k]>>]
      [] arm = "sub" -> <<(<<mul, t.a[1]>>), (<<0 - mul, t.a[2]>>)>>
      [] arm = "ite_true" -> <<(<<mul, t.a[2]>>)>>
      [] arm = "ite_false" -> <<(<<mul, t.a[3]>>)>>
      [] arm = "def" -> <<(<<1, t.a[1]>>)>>
      [] OTHER -> <<>>

\* what the arm does before its recursive calls
LinBefore(arm, S, mul, t) ==
    CASE arm = "tid" -> [S EXCEPT !.ts = insert_mul(t, mul, @)]
      [] arm = "opaque" -> [S EXCEPT !.ts = insert_mul(t, mul, @)]
      [] arm = "num" -> [S EXCEPT !.c = @ + mul * t.n]
      [] arm = "ite_false" -> [S EXCEPT !.g.fmls = Append(@, mk_not(t.a[1]))]
      [] arm = "ite_throw" ->
            [S EXCEPT !.g.err = "mbp evaluation didn't produce a truth value"]
      [] arm = "def" -> [g |-> S.g, ts |-> <<>>, c |-> 0]   \* add_def: ts0, c0
      [] OTHER -> S

\* The rest of add_def and the registration of t as a mod / div
\* pseudo-variable: X the extracted coefficients of the inner accumulator,
\* c its constant, S the state at entry of the arm.
LinDef(X, c, S, mul, t) ==
    [g |-> IF X.g.err # "" THEN X.g
           ELSE IF t.op = "mod" THEN add_mod(X.g, t, X.coeffs, c, t.a[2].n)
           ELSE add_div(X.g, t, X.coeffs, c, t.a[2].n),
     ts |-> insert_mul(t, mul, S.ts), c |-> S.c]

\* what the arm does after its recursive calls returned R (S: the state at
\* entry)
LinAfter(arm, S, R, mul, t, M) ==
    IF R.g.err # "" THEN R
    ELSE IF arm = "ite_true" THEN [R EXCEPT !.g.fmls = Append(@, t.a[1])]
    ELSE IF arm = "def" THEN LinDef(extract_coefficients(R.g, R.ts, M), R.c, S, mul, t)
    ELSE R

RECURSIVE LinTerm(_, _, _, _)
RECURSIVE LinCallSeq(_, _, _)

LinCallSeq(S, calls, M) ==
    IF calls = <<>> THEN S
    ELSE LinCallSeq(LinTerm(S, calls[1][1], calls[1][2], M), Tail(calls), M)

\* void linearize(mbo, eval, mul, t, c, fmls, ts, tids)
LinTerm(S, mul, t, M) ==
    IF S.g.err # "" THEN S
    ELSE LET arm == LinArm(S, t, M)
         IN  LinAfter(arm, S,
                      LinCallSeq(LinBefore(arm, S, mul, t), LinCalls(arm, mul, t), M),
                      mul, t, M)

\* ------------------------------------------------------- literal linearizer
\* std::sort(nums, compare_second()): pairs <<arg, value>> ordered by value.
RECURSIVE InsertSorted(_, _)
InsertSorted(p, sorted) ==
    IF sorted = <<>> THEN <<p>>
    ELSE IF p[2] < sorted[1][2] THEN <<p>> \o sorted
    ELSE <<sorted[1]>> \o InsertSorted(p, Tail(sorted))

RECURSIVE SortBySecond(_)
SortBySecond(nums) ==
    IF nums = <<>> THEN <<>>
    ELSE InsertSorted(nums[Len(nums)], SortBySecond(SubSeq(nums, 1, Len(nums) - 1)))

\* The tail of the comparison arms: both sides go into one accumulator,
\* which is extracted and submitted as a single constraint.
\* Variant: a non-strict comparison is submitted as a strict one.
Submit_strict(X, c, ty) ==
    IF X.g.err # "" THEN [ok |-> FALSE, g |-> X.g]
    ELSE [ok |-> TRUE, g |-> add_constraint(X.g, X.coeffs, c, IF ty = "le" THEN "lt" ELSE ty)]

Submit(X, c, ty) ==
    IF X.g.err # "" THEN [ok |-> FALSE, g |-> X.g]
    ELSE [ok |-> TRUE, g |-> add_constraint(X.g, X.coeffs, c, ty)]

ExtractAndSubmit(S, ty, M) == Submit(extract_coefficients(S.g, S.ts, M), S.c, ty)

\* Variant: the second side is linearized with the sign of the first.
LinCompare_samesign(g, mul, e1, e2, ty, M) ==
    ExtractAndSubmit(LinCallSeq([g |-> g, ts |-> <<>>, c |-> 0],
                                <<(<<mul, e1>>), (<<mul, e2>>)>>, M), ty, M)

LinCompare(g, mul, e1, e2, ty, M) ==
    ExtractAndSubmit(LinCallSeq([g |-> g, ts |-> <<>>, c |-> 0],
                                <<(<<mul, e1>>), (<<0 - mul, e2>>)>>, M), ty, M)

\* Negated distinct: the first argument whose value was seen before, with
\* the earlier argument of that value.  vals are the values of args.
FindEqual(args, vals) ==
    LET bad(k) == ~IsNumV(vals[k])
        dup(k) == \E l \in 1..(k - 1) : vals[l] = vals[k]
        hit(k) == bad(k) \/ dup(k)
    IN  IF \A k \in 1..Len(args) : ~hit(k) THEN [kind |-> "none"]
        ELSE LET k == CHOOSE k \in 1..Len(args) : hit(k) /\ \A l \in 1..(k - 1) : ~hit(l)
             IN  IF bad(k) THEN [kind |-> "fail"]
                 ELSE [kind |-> "found", arg1 |-> args[k],
                       arg2 |-> args[CHOOSE l \in 1..(k - 1) : vals[l] = vals[k]]]

FirstWith(vals, v) ==
    IF \E k \in 1..Len(vals) : vals[k] = v
    THEN CHOOSE k \in 1..Len(vals) : vals[k] = v /\ \A l \in 1..(k - 1) : vals[l] # v
    ELSE 0

\* The arm of the dispatch of linearize(.., lit, ..) taken by the literal
\* `lit` (negation already stripped once, is_not telling so).
LitArm(lit, is_not) ==
    IF lit.op \in {"le", "ge"} THEN "le"
    ELSE IF lit.op \in {"lt", "gt"} THEN "lt"
    ELSE IF lit.op = "eq" /\ ~is_not /\ is_arith(lit.a[1]) THEN "eq"
    ELSE IF lit.op = "eq" /\ is_not /\ is_arith(lit.a[1]) THEN "neq"
    ELSE IF lit.op = "distinct" /\ ~is_not /\ is_arith(lit.a[1]) THEN "distinct"
    ELSE IF lit.op = "distinct" /\ is_not /\ is_arith(lit.a[1]) THEN "ndistinct"
    ELSE IF lit.op = "and" /\ ~is_not THEN "and"
    ELSE IF lit.op = "or" /\ is_not THEN "nor"
    ELSE IF lit.op = "or" /\ ~is_not THEN "or"
    ELSE IF lit.op = "and" /\ is_not THEN "nand"
    ELSE "skip"

\* The arms that end in the common tail: [refuse, e1, e2, ty], the two
\* sides handed to the term linearizer (e1 with mul, e2 with -mul) and the
\* comparator; refuse when the arm returns false before that.
LitSides(arm, lit, is_not, vals) ==
    LET no == [refuse |-> TRUE, e1 |-> lit, e2 |-> lit, ty |-> "le"]
        side(u, v, ty) == [refuse |-> FALSE, e1 |-> u, e2 |-> v, ty |-> ty]
    IN  CASE arm = "le" ->
               IF lit.op = "le" THEN side(lit.a[1], lit.a[2], IF is_not THEN "lt" ELSE "le")
               ELSE side(lit.a[2], lit.a[1], IF is_not THEN "lt" ELSE "le")
          [] arm = "lt" ->
               IF lit.op = "lt" THEN side(lit.a[1], lit.a[2], IF is_not THEN "le" ELSE "lt")
               ELSE side(lit.a[2], lit.a[1], IF is_not THEN "le" ELSE "lt")
          [] arm = "eq" -> side(lit.a[1], lit.a[2], "eq")
          [] arm = "neq" ->
               IF ~IsNumV(vals[1]) \/ ~IsNumV(vals[2]) THEN no
               ELSE IF vals[1][2] < vals[2][2] THEN side(lit.a[2], lit.a[1], "lt")
               ELSE side(lit.a[1], lit.a[2], "lt")
          [] arm = "ndistinct" ->
               LET f == FindEqual(lit.a, vals)
               IN  IF f.kind = "fail" THEN no
                   ELSE IF f.kind = "found" THEN side(f.arg1, f.arg2, "eq")
                   ELSE [refuse |-> FALSE, e1 |-> Num(0), e2 |-> Num(0), ty |-> "le"]

\* The literals the Boolean arms append to fmls; <<>> when the arm refuses.
LitEnqueue(arm, lit, vals) ==
    CASE arm = "and" -> lit.a
      [] arm = "nor" -> [k \in 1..Len(lit.a) |-> mk_not(lit.a[k])]
      [] arm = "or" ->
           LET k == FirstWith(vals, BoolV(TRUE))
           IN  IF k = 0 THEN <<>> ELSE <<lit.a[k]>>
      [] arm = "nand" ->
           LET k == FirstWith(vals, BoolV(FALSE))
           IN  IF k = 0 THEN <<>> ELSE <<mk_not(lit.a[k])>>

RECURSIVE LinLit(_, _, _, _)
RECURSIVE LinDistinct(_, _, _, _, _)

\* positive distinct: one recursive linearize per adjacent pair of the
\* sorted arguments; the first refusal refuses the whole literal.
DistinctRest(r, nums, k, M, live) ==
    IF ~r.ok THEN r ELSE LinDistinct(r.g, nums, k + 1, M, live)

LinDistinct(g, nums, k, M, live) ==
    IF k + 1 > Len(nums) THEN [ok |-> TRUE, g |-> g]
    ELSE DistinctRest(LinLit(g, Lt(nums[k][1], nums[k + 1][1]), M, live), nums, k, M, live)

\* bool linearize(mbo, eval, lit, fmls, tids).  `live` is m.inc().
\* Result: [ok, g]; g.err # "" when an exception left the call.
LinLit(g, lit0, M, live) ==
    IF ~live THEN [ok |-> FALSE, g |-> g]
    ELSE
    LET is_not == lit0.op = "not"
        lit == IF is_not THEN lit0.a[1] ELSE lit0
        mul == IF is_not THEN 0 - 1 ELSE 1
        arm == LitArm(lit, is_not)
        vals == [k \in 1..Len(lit.a) |-> Eval(lit.a[k], M)]
    IN  IF arm = "skip" THEN [ok |-> FALSE, g |-> g]
        ELSE IF arm \in {"and", "nor", "or", "nand"}
        THEN LET more == LitEnqueue(arm, lit, vals)
             IN  IF more = <<>> THEN [ok |-> FALSE, g |-> g]
                 ELSE [ok |-> TRUE, g |-> [g EXCEPT !.fmls = @ \o more]]
        ELSE IF arm = "distinct"
        THEN IF \E k \in 1..Len(vals) : ~IsNumV(vals[k]) THEN [ok |-> FALSE, g |-> g]
             ELSE LinDistinct(g,
                     SortBySecond([k \in 1..Len(lit.a) |-> <<lit.a[k], vals[k][2]>>]),
                     1, M, live)
        ELSE LET sd == LitSides(arm, lit, is_not, vals)
             IN  IF sd.refuse THEN [ok |-> FALSE, g |-> g]
                 ELSE LinCompare(g, mul, sd.e1, sd.e2, sd.ty, M)

\* ------------------------------------------------------- purity analysis
\* the is_pure lambda of project
is_pure(e) ==
    \/ e.op = "mod" /\ e.a[2].op = "num"
    \/ e.op = "idiv" /\ e.a[2].op = "num" /\ e.a[2].n > 0

Range(sq) == {sq[k] : k \in 1..Len(sq)}

\* mark_rec(fmls_mark, e) marks every subterm of e.  The first loop runs
\* always, the second only under m_check_purified.
MarkSet(tids, residue, var_mark, chk) ==
    LET loop1 == UNION {Subterms(e) : e \in {t \in Range(tids) :
                            is_arith(t) /\ ~is_pure(t) /\ t \notin var_mark}}
        loop2 == IF chk
                 THEN UNION {Subterms(f) : f \in Range(residue)}
                      \cup UNION {Subterms(e) : e \in {t \in Range(tids) :
                                      t \notin var_mark /\ ~is_pure(t)}}
                 ELSE {}
    IN  loop1 \cup loop2

\* Variant: the selection ignores the mark set.
IsEliminated_unmarked(v, mark) == is_arith(v)

\* The two halves of the loop over vars that follows the marking.
IsEliminated(v, mark) == is_arith(v) /\ v \notin mark

\* the elements of sq that are in the set S, in the order of sq
RECURSIVE SelectIn(_, _)
SelectIn(sq, S) ==
    IF sq = <<>> THEN <<>>
    ELSE IF sq[1] \in S THEN <<sq[1]>> \o SelectIn(Tail(sq), S)
    ELSE SelectIn(Tail(sq), S)

RetainedVars(vs0, mark) ==
    SelectIn(vs0, {v \in Range(vs0) : ~IsEliminated(v, mark)})

RealVars(vs0, mark, tids) ==
    LET es == SelectIn(vs0, {v \in Range(vs0) : IsEliminated(v, mark)})
    IN  [k \in 1..Len(es) |-> TidOf(tids, es[k])]

\* ------------------------------------------------------- MBO kernel: project
\* The kernel's contract: after project(ids) no live row mentions an
\* eliminated id, and the rows are still satisfied by the kernel's values.
\* Modelled by replacing every eliminated variable by its value.
MboProjectRow(r, ids, vals) ==
    LET gone == {c \in Range(r.vars) : c[1] \in Range(ids)}
    IN  [r EXCEPT !.vars = SelectIn(r.vars, Range(r.vars) \ gone),
                  !.coeff = @ + RowSum(SelectIn(r.vars, gone), vals)]

MboProject(rows, ids, vals) ==
    [k \in 1..Len(rows) |-> MboProjectRow(rows[k], ids, vals)]

\* The definitions project returns, one optional entry per id: absent
\* ("null"), the value of the variable ("const"), or another live variable
\* of the same value plus a constant ("var").
MboDef(style, id, ids, vals) ==
    IF style = "const" THEN [kind |-> "const", c |-> vals[id]]
    ELSE IF style = "var" /\ \E w \in 1..Len(vals) : w \notin Range(ids)
    THEN LET w == CHOOSE w \in 1..Len(vals) : w \notin Range(ids)
         IN  [kind |-> "add",
              x |-> [kind |-> "var", id |-> w, coeff |-> 1],
              y |-> [kind |-> "const", c |-> vals[id] - vals[w]]]
    ELSE IF style = "var" THEN [kind |-> "const", c |-> vals[id]]
    ELSE [kind |-> "null"]

MboDefs(style, ids, vals) ==
    [k \in 1..Len(ids) |-> MboDef(style, ids[k], ids, vals)]

\* ------------------------------------------------------- MBO kernel: maximize
\* What a row says of the values of the variables.
RowSat(r, vals) ==
    LET s == RowSum(r.vars, vals) + r.coeff
    IN  CASE r.type = "le" -> s <= 0
          [] r.type = "lt" -> s < 0
          [] r.type = "eq" -> s = 0
          [] r.type = "mod" -> vals[r.id] = ModI(s, r.mod)
          [] r.type = "div" -> vals[r.id] = DivI(s, r.mod)
          [] OTHER -> ModI(s, r.mod) = 0

\* opt::inf_eps: inf*oo + r + eps*epsilon
InfEps(inf, r, eps) == [inf |-> inf, r |-> r, eps |-> eps]

\* The kernel's contract for maximize(), as far as the plugin relies on it:
\* nv, the values the variables have afterwards, satisfy every row, and the
\* optimum is the objective at nv ("closed"), a supremum just above it that
\* is not attained ("open"), or unbounded ("inf").
MboMaximize(rows, coeffs, c, nv, kind) ==
    IF kind = "closed" THEN InfEps(0, RowSum(coeffs, nv) + c, 0)
    ELSE IF kind = "open" THEN InfEps(0, RowSum(coeffs, nv) + c + 1, 0 - 1)
    ELSE InfEps(1, 0, 0)

\* ------------------------------------------------------- reification
\* a.mk_add_simplify
mk_add(ts) ==
    IF Len(ts) = 0 THEN Num(0) ELSE IF Len(ts) = 1 THEN ts[1] ELSE AddN(ts)

\* def_vars: the live rows of type mod / div, keyed by the id they define.
DefVars(rows) == {r \in Range(rows) : r.type \in {"mod", "div"}}

RECURSIVE row2expr(_, _, _)
RECURSIVE id2expr(_, _, _)
RECURSIVE RowTerms(_, _, _)

id2expr(def_vars, index2expr, id) ==
    IF \E r \in def_vars : r.id = id
    THEN row2expr(def_vars, index2expr, CHOOSE r \in def_vars : r.id = id)
    ELSE index2expr[id]

\* the loop over r.m_vars of row2expr
RowTerms(def_vars, index2expr, cs) ==
    IF cs = <<>> THEN <<>>
    ELSE LET t == id2expr(def_vars, index2expr, cs[1][1])
             rest == RowTerms(def_vars, index2expr, Tail(cs))
         IN  IF t.op = "num" /\ t.n = 0 THEN rest
             ELSE IF t.op = "num" THEN <<Num(cs[1][2] * t.n)>> \o rest
             ELSE IF cs[1][2] # 1 THEN <<Mul(Num(cs[1][2]), t)>> \o rest
             ELSE <<t>> \o rest

row2expr(def_vars, index2expr, r) ==
    LET ts == RowTerms(def_vars, index2expr, r.vars)
        withc == IF r.coeff # 0 THEN Append(ts, Num(r.coeff)) ELSE ts
    IN  IF r.type = "mod"
        THEN IF ts = <<>> THEN Num(ModI(r.coeff, r.mod))
             ELSE Mod(mk_add(withc), Num(r.mod))
        ELSE IF r.type = "div"
        THEN IF ts = <<>> THEN Num(DivI(r.coeff, r.mod))
             ELSE Idiv(mk_add(withc), Num(r.mod))
        ELSE IF r.type = "divides" THEN mk_add(Append(ts, Num(r.coeff)))
        ELSE mk_add(ts)

\* Variant: the single-variable case keeps the comparator of the row.
row2fml_keepsign(def_vars, index2expr, r) ==
    IF r.vars = <<>> \/ r.type \in {"mod", "div"} THEN <<>>
    ELSE IF Len(r.vars) = 1 /\ r.vars[1][2] < 0 /\ r.type \in {"eq", "le", "lt"}
    THEN LET t0 == id2expr(def_vars, index2expr, r.vars[1][1])
             t == IF r.vars[1][2] # 0 - 1 THEN Mul(Num(0 - r.vars[1][2]), t0) ELSE t0
             s == Num(r.coeff)
         IN  IF r.type = "lt" THEN <<Lt(t, s)>>
             ELSE IF r.type = "le" THEN <<Le(t, s)>>
             ELSE <<Eq(t, s)>>
    ELSE LET t == row2expr(def_vars, index2expr, r)
             s == Num(0 - r.coeff)
         IN  IF r.type = "lt" THEN <<Lt(t, s)>>
             ELSE IF r.type = "le" THEN <<Le(t, s)>>
             ELSE IF r.type = "eq" THEN <<Eq(t, s)>>
             ELSE <<Eq(Mod(t, Num(r.mod)), Num(0))>>

\* one iteration of the loop of rows2fmls: the literals row r contributes
row2fml(def_vars, index2expr, r) ==
    IF r.vars = <<>> \/ r.type \in {"mod", "div"} THEN <<>>
    ELSE IF Len(r.vars) = 1 /\ r.vars[1][2] < 0 /\ r.type \in {"eq", "le", "lt"}
    THEN LET t0 == id2expr(def_vars, index2expr, r.vars[1][1])
             t == IF r.vars[1][2] # 0 - 1 THEN Mul(Num(0 - r.vars[1][2]), t0) ELSE t0
             s == Num(r.coeff)
         IN  IF r.type = "lt" THEN <<Gt(t, s)>>
             ELSE IF r.type = "le" THEN <<Ge(t, s)>>
             ELSE <<Eq(t, s)>>
    ELSE LET t == row2expr(def_vars, index2expr, r)
             s == Num(0 - r.coeff)
         IN  IF r.type = "lt" THEN <<Lt(t, s)>>
             ELSE IF r.type = "le" THEN <<Le(t, s)>>
             ELSE IF r.type = "eq" THEN <<Eq(t, s)>>
             ELSE <<Eq(Mod(t, Num(r.mod)), Num(0))>>

RECURSIVE rows2fmls(_, _, _, _)
rows2fmls(def_vars, rows, index2expr, fmls) ==
    IF rows = <<>> THEN fmls
    ELSE rows2fmls(def_vars, Tail(rows), index2expr,
                   fmls \o row2fml(def_vars, index2expr, rows[1]))

\* from_def: the host term of a kernel definition
RECURSIVE from_def(_, _, _)
from_def(def_vars, d, index2expr) ==
    IF d.kind = "add"
    THEN Add(from_def(def_vars, d.x, index2expr), from_def(def_vars, d.y, index2expr))
    ELSE IF d.kind = "mul"
    THEN Mul(from_def(def_vars, d.x, index2expr), from_def(def_vars, d.y, index2expr))
    ELSE IF d.kind = "const" THEN Num(d.c)
    ELSE IF d.kind = "var"
    THEN LET t == id2expr(def_vars, index2expr, d.id)
         IN  IF d.coeff # 1 THEN Mul(Num(d.coeff), t) ELSE t
    ELSE IF d.kind = "div" THEN Idiv(from_def(def_vars, d.x, index2expr), Num(d.m))
    ELSE NullE

\* optdefs2mbpdef.  Every entry of defs is dereferenced; for an absent one
\* from_def reads through a null reference, and when that read does not
\* kill the call no kind matches and the term is the null expression.
optdefs2mbpdef(def_vars, defs, index2expr, real_vars, result) ==
    result \o [k \in 1..Len(defs) |->
                 [var |-> index2expr[real_vars[k]],
                  term |-> from_def(def_vars, defs[k], index2expr)]]

\* ------------------------------------------------------- apply_projection
\* expr_safe_replace: one top-down pass; a replaced subterm is not visited
\* again.  sub is a sequence of <<src, dst>>, the latest insert of a source
\* wins.
RECURSIVE Subst(_, _)
Subst(e, sub) ==
    IF \E k \in 1..Len(sub) : sub[k][1] = e
    THEN sub[CHOOSE k \in 1..Len(sub) :
                 sub[k][1] = e /\ \A l \in (k + 1)..Len(sub) : sub[l][1] # e][2]
    ELSE IF e.a = <<>> THEN e
    ELSE [e EXCEPT !.a = [k \in 1..Len(e.a) |-> Subst(e.a[k], sub)]]

\* Variant: a definition is entered as it is, without the substitution
\* built so far applied to its term.
RECURSIVE BuildSubst_raw(_, _, _)
BuildSubst_raw(defs, k, sub) ==
    IF k = 0 THEN sub
    ELSE BuildSubst_raw(defs, k - 1, Append(sub, <<defs[k].var, defs[k].term>>))

\* the first loop of apply_projection: definitions taken last to first
RECURSIVE BuildSubst(_, _, _)
BuildSubst(defs, k, sub) ==
    IF k = 0 THEN sub
    ELSE BuildSubst(defs, k - 1, Append(sub, <<defs[k].var, Subst(defs[k].term, sub)>>))

\* Result: [ok, fmls]; on a falsified formula the formulas before it are
\* already replaced.
RECURSIVE ApplyLoop(_, _, _, _)
ApplyLoop(fmls, k, sub, M) ==
    IF k > Len(fmls) THEN [ok |-> TRUE, fmls |-> fmls]
    ELSE LET tmp == Subst(fmls[k], sub)
         IN  IF IsFalseV(Eval(tmp, M)) THEN [ok |-> FALSE, fmls |-> fmls]
             ELSE ApplyLoop([fmls EXCEPT ![k] = tmp], k + 1, sub, M)

\* Variant: the check also runs with an empty definition list.
apply_projection_unguarded(defs, fmls, M) ==
    ApplyLoop(fmls, 1, BuildSubst(defs, Len(defs), <<>>), M)

apply_projection(defs, fmls, M) ==
    IF fmls = <<>> \/ defs = <<>> THEN [ok |-> TRUE, fmls |-> fmls]
    ELSE ApplyLoop(fmls, 1, BuildSubst(defs, Len(defs), <<>>), M)

\* ------------------------------------------------------- inputs
x == Var(1)
y == Var(2)
b == BVar(1)

\* The lists of host variables a caller asks to eliminate.
VarLists == {<<b>>, <<x>>, <<b, x, y>>}

\* Literals the input lists are drawn from.
LitPool ==
    { Le(x, Num(1)),
      Not(Ge(Mul(Num(2), x), y)),
      Eq(Sub(x, y), Num(0)),
      Not(Eq(x, y)),
      And(<<Not(Eq(Und, x)), Distinct(<<Und, x>>), Not(Distinct(<<x, Und>>))>>),
      Distinct(<<y, x, Num(2)>>),
      Not(Distinct(<<x, y>>)),
      And(<<Gt(y, Neg(x)), Pred(x)>>),
      Or(<<Lt(x, y), b>>),
      Not(And(<<Le(x, y), Pred(y)>>)),
      Not(Or(<<Pred(x), Lt(y, Num(0))>>)),
      Le(Ite(Le(x, Num(0)), x, y), Num(1)),
      Le(Ite(Le(x, Num(0)), Und, Ite(Pred(Und), x, y)), Num(1)),
      Le(Add(Mod(x, Num(2)), Idiv(y, Num(2))), Num(1)),
      Le(Mod(x, Num(0)), Num(1)),
      Le(Mul(x, y), Num(1)),
      Not(Not(Le(x, Num(1)))) }

PadLit == Ge(y, x)

InputLits ==
    {<<>>} \cup {<<l>> \o [k \in 1..t |-> PadLit] : l \in LitPool, t \in 0..MaxPad}

\* The models: x ranges over 0..MaxVal, y is 1.
Models == {<<v, 1>> : v \in 0..MaxVal}

\* maximize: the objectives and the constraint lists
MaxTerms == {x, Add(x, y), Ite(Le(x, Num(0)), x, y)}

MaxFmls ==
    { <<>>,
      <<Le(x, Num(1))>>,
      <<Lt(x, y), And(<<Ge(x, Num(0)), Le(y, Num(1))>>)>> }

\* ------------------------------------------------------- state
VARIABLES
    m_check_purified,    \* imp::m_check_purified
    m_apply_projection,  \* imp::m_apply_projection
    canceled,          \* the host's limit was canceled: m.inc() is false
    pc,                \* position of the running call
    entry,             \* the entry point called
    M,                 \* the model handed in
    vars_in, fmls_in,  \* the arguments as handed in
    compute_def,       \* project's compute_def
    vs,                \* vars (in/out)
    g,                 \* fmls (in/out), tids, the kernel, a pending exception
    i, j,              \* loop counters of the linearization loop
    real_vars,         \* ids handed to mbo.project
    fmls_mark,         \* the mark set
    defs,              \* what mbo.project returned
    result,            \* the definition list (out)
    inner,             \* "none" until imp::project returns, then what it returned
    ret,               \* "none" until the call returns, then what it returned
    polled,            \* some poll of m.inc() of this call saw false
    opt                \* maximize: the objective, the optimum, ge and gt

\* opt before maximize ran
NoOpt ==
    [t |-> Num(0), coeffs |-> <<>>, c |-> 0, end |-> 0, value |-> InfEps(0, 0, 0),
     tval |-> Num(0), ge |-> FalseE, gt |-> FalseE]

vars == <<m_check_purified, m_apply_projection, canceled, pc, entry, M, vars_in, fmls_in,
          compute_def, vs, g, i, j, real_vars, fmls_mark, defs, result, inner, ret, polled, opt>>

Init ==
    /\ m_check_purified = TRUE
    /\ m_apply_projection = FALSE
    /\ canceled = FALSE
    /\ pc = "idle"
    /\ entry = "none"
    /\ M = <<0, 0>>
    /\ vars_in = <<>>
    /\ fmls_in = <<>>
    /\ compute_def = FALSE
    /\ vs = <<>>
    /\ g = EmptyG(<<>>)
    /\ i = 0
    /\ j = 0
    /\ real_vars = <<>>
    /\ fmls_mark = {}
    /\ defs = <<>>
    /\ result = <<>>
    /\ inner = "none"
    /\ ret = "none"
    /\ polled = FALSE
    /\ opt = NoOpt

CallVars == <<entry, M, vars_in, fmls_in, compute_def>>
LoopVars == <<i, j>>
SelVars == <<real_vars, fmls_mark, defs>>
Flags == <<m_check_purified, m_apply_projection>>

\* Variant: project1 passes on what project returned.
project1_any(ok, vs1) == ok

\* project1: return project(model, vs, lits, defs, false) && vs.empty();
project1(ok, vs1) == IF ok = "true" /\ vs1 = <<>> THEN "true" ELSE "false"

\* What the entry point e returns when imp::project returned ok and left vs1.
Returned(e, ok, vs1) == IF e = "project1" THEN project1(ok, vs1) ELSE ok

\* arith_project_plugin::set_check_purified
SetCheckPurified(f) ==
    /\ pc = "idle"
    /\ m_check_purified' = f
    /\ UNCHANGED <<m_apply_projection, canceled, pc, CallVars, vs, g, LoopVars, SelVars,
                   result, inner, ret, polled, opt>>

\* arith_project_plugin::set_apply_projection
SetApplyProjection(f) ==
    /\ pc = "idle"
    /\ m_apply_projection' = f
    /\ UNCHANGED <<m_check_purified, canceled, pc, CallVars, vs, g, LoopVars, SelVars,
                   result, inner, ret, polled, opt>>

\* The host cancels the limit while a call runs.  The flag is only read at
\* the polls of LinearizeStep and RegisterVars.
Cancel ==
    /\ pc \in {"lin", "vars", "maxlin"}
    /\ ~canceled
    /\ canceled' = TRUE
    /\ UNCHANGED <<Flags, pc, CallVars, vs, g, LoopVars, SelVars, result, inner, ret, polled,
                   opt>>

\* fmls.shrink(j) once the linearization loop has run off the end of fmls
AfterLin(g1, i1, j1) ==
    IF i1 = Len(g1.fmls) THEN [g1 EXCEPT !.fmls = SubSeq(@, 1, j1)] ELSE g1

\* Entry of imp::project: the public project entry points and project1 end
\* here.  Without an arithmetic variable the call returns true at once;
\* project1 then answers vs.empty().
CallProject(e, mdl, vars0, fmls0) ==
    /\ pc = "idle"
    /\ entry' = e
    /\ M' = mdl
    /\ vars_in' = vars0
    /\ fmls_in' = fmls0
    /\ vs' = vars0
    /\ compute_def' = ((e = "project_defs") \/ m_apply_projection)
    /\ g' = EmptyG(fmls0)
    /\ IF \E k \in 1..Len(vars0) : is_arith(vars0[k])
       THEN /\ pc' = IF fmls0 = <<>> THEN "vars" ELSE "lin"
            /\ inner' = "none"
            /\ ret' = "none"
       ELSE /\ pc' = "done"
            /\ inner' = "true"
            /\ ret' = Returned(e, "true", vars0)
    /\ UNCHANGED <<Flags, canceled, LoopVars, SelVars, result, polled, opt>>

\* Variant: the loop ends at the size fmls had before this iteration.
LinearizeEnd_fixedend(r, fml, j1) ==
    IF r.g.err # ""
    THEN /\ pc' = "thrown"
         /\ g' = r.g
         /\ UNCHANGED <<i, j>>
    ELSE /\ g' = IF i + 1 = Len(g.fmls)
                 THEN [r.g EXCEPT !.fmls = SubSeq(IF r.ok THEN @ ELSE [@ EXCEPT ![j + 1] = fml],
                                                  1, j1)]
                 ELSE IF r.ok THEN r.g ELSE [r.g EXCEPT !.fmls[j + 1] = fml]
         /\ i' = i + 1
         /\ j' = j1
         /\ pc' = IF i + 1 = Len(g.fmls) THEN "vars" ELSE "lin"

\* The end of one iteration of the loop over fmls: r is what linearize
\* returned for fml; a refused literal is kept at position j.
LinearizeEnd(r, fml, j1) ==
    IF r.g.err # ""
    THEN /\ pc' = "thrown"
         /\ g' = r.g
         /\ UNCHANGED <<i, j>>
    ELSE /\ g' = AfterLin(IF r.ok THEN r.g ELSE [r.g EXCEPT !.fmls[j + 1] = fml],
                          i + 1, j1)
         /\ i' = i + 1
         /\ j' = j1
         /\ pc' = IF i + 1 = Len(r.g.fmls) THEN "vars" ELSE "lin"

\* Variant: j is not advanced past a refused literal.
LinearizeOne_drop(r, fml) == LinearizeEnd(r, fml, j)

LinearizeOne(r, fml) == LinearizeEnd(r, fml, IF r.ok THEN j ELSE j + 1)

\* One iteration of the loop over fmls of project.
LinearizeStep ==
    /\ pc = "lin"
    /\ LinearizeOne(LinLit(g, g.fmls[i + 1], M, ~canceled), g.fmls[i + 1])
    /\ polled' = (polled \/ canceled)
    /\ UNCHANGED <<Flags, canceled, CallVars, vs, SelVars, result, inner, ret, opt>>

\* The loop over vars that gives every arithmetic variable an MBO id.
\* Result: [g, out], out one of "ok", "cancel", "throw".
RECURSIVE RegisterLoop(_, _, _, _, _)
RegisterLoop(g0, vs0, k, mdl, live) ==
    IF k > Len(vs0) THEN [g |-> g0, out |-> "ok"]
    ELSE LET v == vs0[k]
             val == Eval(v, mdl)
         IN  IF is_arith(v) /\ ~InTids(g0.tids, v)
             THEN IF ~live THEN [g |-> g0, out |-> "cancel"]
                  ELSE IF ~IsNumV(val)
                  THEN [g |-> [g0 EXCEPT !.err = "evaluation did not produce a numeral"],
                        out |-> "throw"]
                  ELSE RegisterLoop(add_var(g0, v, val[2]), vs0, k + 1, mdl, live)
             ELSE RegisterLoop(g0, vs0, k + 1, mdl, live)

RegisterEnd(r) ==
    /\ g' = r.g
    /\ pc' = CASE r.out = "ok" -> "select"
               [] r.out = "cancel" -> "done"
               [] r.out = "throw" -> "thrown"
    /\ inner' = IF r.out = "cancel" THEN "false" ELSE inner
    /\ ret' = IF r.out = "cancel" THEN Returned(entry, "false", vs) ELSE ret
    /\ polled' = (polled \/ r.out = "cancel")

RegisterVars ==
    /\ pc = "vars"
    /\ RegisterEnd(RegisterLoop(g, vs, 1, M, ~canceled))
    /\ UNCHANGED <<Flags, canceled, CallVars, vs, LoopVars, SelVars, result, opt>>

\* The rest of project: the purity analysis, the selection of the variables
\* to eliminate, mbo.project, get_live_rows, rows2fmls, optdefs2mbpdef,
\* apply_projection and the return.  `style` is the kernel's choice of
\* definitions.
EliminateAndReturn(style) ==
    /\ pc = "select"
    /\ LET mark == MarkSet(g.tids, g.fmls, Range(vs), m_check_purified)
           ids == RealVars(vs, mark, g.tids)
           ds == MboDefs(style, ids, g.vals)
           rows1 == MboProject(g.rows, ids, g.vals)
           def_vars == DefVars(rows1)
           fmls1 == rows2fmls(def_vars, rows1, g.tids, g.fmls)
           res1 == IF compute_def
                   THEN optdefs2mbpdef(def_vars, ds, g.tids, ids, result)
                   ELSE result
           ap == IF m_apply_projection THEN apply_projection(res1, fmls1, M)
                 ELSE [ok |-> TRUE, fmls |-> fmls1]
           vs1 == RetainedVars(vs, mark)
       IN  /\ fmls_mark' = mark
           /\ real_vars' = ids
           /\ vs' = vs1
           /\ defs' = ds
           /\ g' = [g EXCEPT !.rows = rows1, !.fmls = ap.fmls]
           /\ result' = res1
           /\ inner' = IF ap.ok THEN "true" ELSE "false"
           /\ ret' = Returned(entry, IF ap.ok THEN "true" ELSE "false", vs1)
    /\ pc' = "done"
    /\ UNCHANGED <<Flags, canceled, CallVars, LoopVars, polled, opt>>

\* The same path when the kernel returns an absent definition and the read
\* through the null reference in optdefs2mbpdef kills the call.
EliminateNullDef ==
    /\ pc = "select"
    /\ compute_def
    /\ LET mark == MarkSet(g.tids, g.fmls, Range(vs), m_check_purified)
           ids == RealVars(vs, mark, g.tids)
           rows1 == MboProject(g.rows, ids, g.vals)
       IN  /\ ids # <<>>
           /\ fmls_mark' = mark
           /\ real_vars' = ids
           /\ vs' = RetainedVars(vs, mark)
           /\ defs' = MboDefs("null", ids, g.vals)
           /\ g' = [g EXCEPT !.rows = rows1,
                             !.fmls = rows2fmls(DefVars(rows1), rows1, g.tids, g.fmls)]
    /\ pc' = "crashed"
    /\ UNCHANGED <<Flags, canceled, CallVars, LoopVars, result, inner, ret, polled, opt>>

\* Entry of imp::maximize: the objective t is linearized into the
\* accumulator, its coefficients are extracted and handed to set_objective.
MaxObjective(X, c, t) ==
    /\ g' = X.g
    /\ opt' = [NoOpt EXCEPT !.t = t, !.coeffs = X.coeffs, !.c = c, !.end = Len(X.g.fmls)]
    /\ pc' = IF X.g.err # "" THEN "thrown"
             ELSE IF X.g.fmls = <<>> THEN "maxopt" ELSE "maxlin"

MaxExtract(S, mdl, t) == MaxObjective(extract_coefficients(S.g, S.ts, mdl), S.c, t)

CallMaximize(mdl, t, fmls0) ==
    /\ pc = "idle"
    /\ entry' = "maximize"
    /\ M' = mdl
    /\ vars_in' = <<>>
    /\ fmls_in' = fmls0
    /\ compute_def' = FALSE
    /\ MaxExtract(LinTerm([g |-> EmptyG(fmls0), ts |-> <<>>, c |-> 0], 1, t, mdl), mdl, t)
    /\ UNCHANGED <<Flags, canceled, vs, LoopVars, SelVars, result, inner, ret, polled>>

\* One iteration of `for (expr* fml : fmls) linearize(..)`; what linearize
\* returns is dropped.  The range of the loop is fixed when it starts
\* (opt.end).  When linearize appends to fmls the iterators of the loop
\* dangle if the buffer moved: the loop goes on over stale but intact
\* memory ("stale") or the call is killed ("crash").
MaxLinEnd(r, ub) ==
    IF r.g.err # ""
    THEN /\ pc' = "thrown"
         /\ g' = r.g
         /\ UNCHANGED i
    ELSE IF Len(r.g.fmls) > Len(g.fmls) /\ ub = "crash"
    THEN /\ pc' = "crashed"
         /\ g' = r.g
         /\ UNCHANGED i
    ELSE /\ g' = r.g
         /\ i' = i + 1
         /\ pc' = IF i + 1 = opt.end THEN "maxopt" ELSE "maxlin"

MaxLinStep(ub) ==
    /\ pc = "maxlin"
    /\ MaxLinEnd(LinLit(g, g.fmls[i + 1], M, ~canceled), ub)
    /\ polled' = (polled \/ canceled)
    /\ UNCHANGED <<Flags, canceled, CallVars, vs, j, SelVars, result, inner, ret, opt>>

\* eval(t) as an expression: the numeral, or t when there is none
ValExpr(v, t) == IF IsNumV(v) THEN Num(v[2]) ELSE t

\* Variant: ge is always t >= value.
MaxBounds_value(value, tval) ==
    /\ opt' = [opt EXCEPT
                 !.value = value, !.tval = tval,
                 !.ge = Ge(opt.t, Num(value.r)),
                 !.gt = IF value.inf # 0 THEN FalseE
                        ELSE IF value.eps < 0 THEN Ge(opt.t, Num(value.r))
                        ELSE Gt(opt.t, Num(value.r))]
    /\ ret' = "value"
    /\ pc' = "done"

\* The rest of maximize: mbo.maximize(), the write-back of the values of
\* the uninterpreted constants to the model, and the two bounds.
MaxBounds(value, tval) ==
    /\ opt' = [opt EXCEPT
                 !.value = value, !.tval = tval,
                 !.ge = IF value.inf # 0 \/ value.eps < 0 THEN Ge(opt.t, tval)
                        ELSE Ge(opt.t, Num(value.r)),
                 !.gt = IF value.inf # 0 THEN FalseE
                        ELSE IF value.eps < 0 THEN Ge(opt.t, Num(value.r))
                        ELSE Gt(opt.t, Num(value.r))]
    /\ ret' = "value"
    /\ pc' = "done"

MaxWriteBack(value, mdl) ==
    /\ M' = mdl
    /\ MaxBounds(value, ValExpr(Eval(opt.t, mdl), opt.t))

MaxFinish(kind) ==
    /\ pc = "maxopt"
    /\ \E nv \in [1..Len(g.vals) -> 0..MaxVal] :
          /\ \A k \in 1..Len(g.rows) : RowSat(g.rows[k], nv)
          /\ g' = [g EXCEPT !.vals = nv]
          /\ MaxWriteBack(MboMaximize(g.rows, opt.coeffs, opt.c, nv, kind),
                          [k \in 1..Len(M) |->
                             IF InTids(g.tids, Var(k)) THEN nv[TidOf(g.tids, Var(k))]
                             ELSE M[k]])
    /\ UNCHANGED <<Flags, canceled, entry, vars_in, fmls_in, compute_def, vs, LoopVars,
                   SelVars, result, inner, polled>>

Next ==
    \/ \E f \in BOOLEAN : SetCheckPurified(f)
    \/ \E f \in BOOLEAN : SetApplyProjection(f)
    \/ \E e \in {"project", "project_defs"}, mdl \in Models, vars0 \in VarLists,
          fmls0 \in InputLits : CallProject(e, mdl, vars0, fmls0)
    \/ \E mdl \in Models, v \in {x, b}, fmls0 \in InputLits :
          CallProject("project1", mdl, <<v>>, fmls0)
    \/ Cancel
    \/ LinearizeStep
    \/ RegisterVars
    \/ \E style \in {"const", "var", "null"} : EliminateAndReturn(style)
    \/ EliminateNullDef
    \/ \E mdl \in Models, t \in MaxTerms, fmls0 \in MaxFmls : CallMaximize(mdl, t, fmls0)
    \/ \E ub \in {"stale", "crash"} : MaxLinStep(ub)
    \/ \E kind \in {"closed", "open", "inf"} : MaxFinish(kind)

Spec == Init /\ [][Next]_vars

\* =================================================================== claims
\* A call of imp::project through project(model, vars, lits) or
\* project(model, vars, lits, defs) has returned.
ProjectDone == pc = "done" /\ entry \in {"project", "project_defs"}

\* the input variables that are absent from the returned vars
Eliminated == {v \in Range(vars_in) : v \notin Range(vs)}

\* the expressions of the ids handed to mbo.project
Projected == {g.tids[real_vars[k]] : k \in 1..Len(real_vars)}

\* the key of tids at position k was registered by the term linearizer as a
\* mod / div pseudo-variable with a linearized argument
Registered(k) == \E r \in Range(g.rows) : r.type \in {"mod", "div"} /\ r.id = k

\* ------------------------------------------------------------------- C1
\* C1: for every call of project that returns true, whatever the
\* check_purified setting and the shape of the input literals, no formula
\* of the returned lits contains a variable that was in the input vars and
\* is absent from the returned vars.
C1_NoEliminatedVarInLits ==
    (ProjectDone /\ ret = "true") =>
        \A f \in Range(g.fmls) : \A v \in Eliminated : v \notin Subterms(f)

\* ------------------------------------------------------------------- C2
\* C2: purity discipline: for every key e of tids that the term linearizer
\* abstracted as an opaque variable (e is no variable of vars and no
\* registered mod / div pseudo-variable), every variable of vars that
\* occurs in e is kept in the returned vars and is not handed to
\* mbo.project.
C2_OpaqueKeyPinsItsVars ==
    (ProjectDone /\ ret = "true") =>
        \A k \in 1..Len(g.tids) :
            (g.tids[k] \notin Range(vars_in) /\ ~Registered(k)) =>
                \A v \in Range(vars_in) \cap Subterms(g.tids[k]) :
                    v \in Range(vs) /\ v \notin Projected

\* ------------------------------------------------------------------- C3
\* every input literal evaluates to true under the model
ModelSatisfiesInput == \A k \in 1..Len(fmls_in) : IsTrueV(Eval(fmls_in[k], M))

\* the linearizers have run and the kernel has not changed values or rows
Linearizing == pc \in {"lin", "vars", "select", "maxlin", "maxopt"}

\* C3: when the model evaluates every input literal to true, every
\* constraint the literal linearizer handed to mbo.add_constraint is
\* satisfied by the values the MBO variables were created with, and the
\* value of each MBO variable is the model value of the expression it
\* abstracts.
C3_ConstraintsHoldInModel ==
    (Linearizing /\ ModelSatisfiesInput) =>
        /\ \A k \in 1..Len(g.tids) : Eval(g.tids[k], M) = NumV(g.vals[k])
        /\ \A k \in 1..Len(g.rows) :
              LET s == RowSum(g.rows[k].vars, g.vals) + g.rows[k].coeff
              IN  /\ g.rows[k].type = "le" => s <= 0
                  /\ g.rows[k].type = "lt" => s < 0
                  /\ g.rows[k].type = "eq" => s = 0

\* Constraints of all three kinds were submitted, one of them by a literal
\* that a Boolean arm enqueued, under a model that satisfies the input.
C3_Witness ==
    /\ pc = "select"
    /\ ModelSatisfiesInput
    /\ \E k \in 1..Len(fmls_in) : fmls_in[k].op \in {"and", "or"}
    /\ \E k \in 1..Len(g.rows) : g.rows[k].type = "lt" /\ g.rows[k].vars # <<>>
    /\ \E k \in 1..Len(g.rows) : g.rows[k].type = "le" /\ g.rows[k].vars # <<>>

\* ------------------------------------------------------------------- C4
\* C4: project shrinks vars to exactly the retained subset: an input
\* variable is handed to mbo.project iff it is arithmetic, has an MBO id and
\* is not in the mark set; every other input variable is kept, in its
\* original relative order.
C4_VarsShrunkToRetained ==
    (ProjectDone /\ ret = "true") =>
        LET elim(v) == v.op = "var" /\ InTids(g.tids, v) /\ v \notin fmls_mark
            kept(v) == ~elim(v)
        IN  /\ \A v \in Range(vars_in) : v \in Projected <=> elim(v)
            /\ Len(real_vars) = Cardinality({v \in Range(vars_in) : elim(v)})
            /\ vs = SelectSeq(vars_in, kept)

\* A call that eliminated one variable and kept, in order, a Boolean one
\* and a marked arithmetic one.
C4_Witness ==
    /\ ProjectDone /\ ret = "true"
    /\ Len(real_vars) = 1
    /\ Len(vs) = 2
    /\ \E v \in Range(vs) : v.op = "var" /\ v \in fmls_mark

\* ------------------------------------------------------------------- C5
\* C5: project1(model, v, ..) returns true iff projecting the list [v]
\* succeeds and v is eliminated; when v is not arithmetic or is pinned by
\* the purity analysis it returns false, even though the underlying
\* project call reported success.
C5_Project1 ==
    (pc = "done" /\ entry = "project1") =>
        /\ ret = "true" <=> (inner = "true" /\ vars_in[1] \in Projected)
        /\ (~is_arith(vars_in[1]) \/ vars_in[1] \in fmls_mark) => ret = "false"
        /\ ~is_arith(vars_in[1]) => inner = "true"

\* project1 on a pinned arithmetic variable: project succeeded, project1
\* answers false.
C5_Witness ==
    /\ pc = "done" /\ entry = "project1"
    /\ is_arith(vars_in[1]) /\ vars_in[1] \in fmls_mark
    /\ inner = "true" /\ ret = "false"

\* ------------------------------------------------------------------- C6
\* The literal taken from the worklist next, with one negation stripped.
Stripped(lit0) == IF lit0.op = "not" THEN lit0.a[1] ELSE lit0

\* Linearizing the term t needs a value the model does not give: the guard
\* of an ite on the path taken has no truth value, or a leaf that gets an
\* MBO id has no numeral value.
RECURSIVE NeedFails(_, _)
NeedFails(t, mdl) ==
    IF t.op = "num" THEN FALSE
    ELSE IF t.op = "mul" /\ t.a[1].op = "num" THEN NeedFails(t.a[2], mdl)
    ELSE IF t.op = "mul" /\ t.a[2].op = "num" THEN NeedFails(t.a[1], mdl)
    ELSE IF t.op \in {"uminus", "add", "sub"}
    THEN \E k \in 1..Len(t.a) : NeedFails(t.a[k], mdl)
    ELSE IF t.op = "ite"
    THEN \/ Eval(t.a[1], mdl)[1] # "b"
         \/ IsTrueV(Eval(t.a[1], mdl)) /\ NeedFails(t.a[2], mdl)
         \/ IsFalseV(Eval(t.a[1], mdl)) /\ NeedFails(t.a[3], mdl)
    ELSE IF t.op \in {"mod", "idiv"} /\ t.a[2].op = "num" /\ t.a[2].n > 0
    THEN NeedFails(t.a[1], mdl)
    ELSE ~IsNumV(Eval(t, mdl))

\* lit0 is a comparison whose sides go to the term linearizer, and that
\* linearization needs a value the model does not give.
TermEvalFails(lit0, mdl) ==
    LET lit == Stripped(lit0)
    IN  /\ \/ lit.op \in {"le", "lt", "ge", "gt"}
           \/ lit.op = "eq" /\ lit0.op # "not" /\ is_arith(lit.a[1])
        /\ NeedFails(lit.a[1], mdl) \/ NeedFails(lit.a[2], mdl)

\* lit0 is a negated equality, a distinct or a negated distinct, and an
\* argument the arm evaluates has no numeral value.
ArgEvalFails(lit0, mdl) ==
    LET lit == Stripped(lit0)
        val(k) == Eval(lit.a[k], mdl)
    IN  /\ lit.op \in {"eq", "distinct"}
        /\ is_arith(lit.a[1])
        /\ IF lit.op = "eq" THEN lit0.op = "not" /\ \E k \in 1..2 : ~IsNumV(val(k))
           ELSE IF lit0.op # "not" THEN \E k \in 1..Len(lit.a) : ~IsNumV(val(k))
           ELSE \E k \in 1..Len(lit.a) :
                   /\ ~IsNumV(val(k))
                   /\ \A l \in 1..(k - 1) : IsNumV(val(l))
                   /\ \A l1, l2 \in 1..(k - 1) : l1 # l2 => val(l1) # val(l2)

\* a step of the linearization loop of project with the host limit live
LiveLinStep == pc = "lin" /\ ~canceled /\ ~canceled'

\* C6: evaluation failure is fatal: whenever the evaluation of a subterm
\* that must be a numeral or a truth value (an ite guard, a side of a
\* negated equality, an argument of distinct or negated distinct, a term
\* given an MBO id) does not yield one, the linearizer raises an error that
\* aborts the whole project call.
C6_EvalFailureIsFatal ==
    [][(LiveLinStep /\ (TermEvalFails(g.fmls[i + 1], M) \/ ArgEvalFails(g.fmls[i + 1], M)))
          => pc' = "thrown"]_vars

\* C6, amended: an ite guard without a truth value and a term that gets an
\* MBO id without a numeral value abort the call with an exception; a side
\* of a negated equality or an argument of distinct / negated distinct
\* without a numeral value only makes the linearizer refuse the literal,
\* which stays in the residue with no constraint submitted, and the call
\* goes on.
C6_ThrowOrRefuse ==
    [][LiveLinStep =>
          /\ TermEvalFails(g.fmls[i + 1], M) => (pc' = "thrown" /\ g'.err # "")
          /\ ArgEvalFails(g.fmls[i + 1], M) =>
                /\ pc' \in {"lin", "vars"}
                /\ j' = j + 1
                /\ g'.fmls[j'] = g.fmls[i + 1]
                /\ g'.rows = g.rows]_vars

\* A call returned true with a literal in its residue whose argument has no
\* numeral value.
C6_Witness ==
    /\ ProjectDone /\ ret = "true"
    /\ \E k \in 1..Len(g.fmls) : ArgEvalFails(g.fmls[k], M)

\* ------------------------------------------------------------------- C7
\* C7: cancellation: if the host liveness flag is found clear at any poll
\* during a project call, at the top of a literal linearization or in the
\* loop over the variables, that project call returns false.
C7_FailedPollReturnsFalse ==
    (pc = "done" /\ entry \in {"project", "project_defs", "project1"} /\ polled)
        => inner = "false"

\* ------------------------------------------------------------------- C8
\* a call in apply-projection mode got as far as apply_projection with
\* definitions that are all present
ApplyDone ==
    /\ ProjectDone /\ m_apply_projection
    /\ \E k \in 1..Len(vars_in) : is_arith(vars_in[k])
    /\ ~(inner = "false" /\ result = <<>> /\ polled)
    /\ \A k \in 1..Len(defs) : defs[k].kind # "null"

\* C8: in apply-projection mode the call returns true only if every
\* residue formula evaluates to true under the model after the definitions
\* are substituted, and returns false if any does not.
C8_TrueOnlyIfAllTrue ==
    (ApplyDone /\ ret = "true") => \A k \in 1..Len(g.fmls) : IsTrueV(Eval(g.fmls[k], M))

\* C8, amended: the check runs only when the residue and the definition
\* list are both non-empty; the call returns false exactly when some
\* substituted formula evaluates to false (the first such formula ends the
\* loop, the formulas before it are replaced); a formula without a truth
\* value passes.
C8_FalseOnlyIfSomeFalse ==
    ApplyDone =>
        /\ ret = "true" =>
              (result = <<>> \/ \A k \in 1..Len(g.fmls) : ~IsFalseV(Eval(g.fmls[k], M)))
        /\ ret = "false" =>
              /\ result # <<>>
              /\ \E k \in 1..Len(g.fmls) :
                    /\ IsFalseV(Eval(Subst(g.fmls[k],
                                           BuildSubst(result, Len(result), <<>>)), M))
                    /\ \A l \in 1..(k - 1) : ~IsFalseV(Eval(g.fmls[l], M))

\* The call returned true although a substituted formula has no truth value.
C8_Witness ==
    /\ ApplyDone /\ ret = "true" /\ result # <<>>
    /\ \E k \in 1..Len(g.fmls) : Eval(g.fmls[k], M)[1] = "u"

\* ------------------------------------------------------------------- C9
\* C9: project with a definition list appends exactly one definition per
\* eliminated variable: for every list of optional definitions mbo.project
\* may return, the call completes, the number of appended entries is the
\* number of variables removed from vars, and the var of the i-th entry is
\* the expression of the i-th id handed to mbo.project.
C9_OneDefPerEliminated ==
    entry = "project_defs" =>
        /\ pc # "crashed"
        /\ (pc = "done" /\ inner = "true") =>
              /\ Len(result) = Len(vars_in) - Len(vs)
              /\ \A k \in 1..Len(result) : result[k].var = g.tids[real_vars[k]]

\* ------------------------------------------------------------------- C10
MaximizeDone == pc = "done" /\ entry = "maximize"

\* the three cases of the optimum
IsInfinite(v) == v.inf # 0
IsOpen(v) == v.inf = 0 /\ v.eps < 0

NextLin == LinLit(g, g.fmls[i + 1], M, ~canceled)

\* the literals rows2fmls makes of the live rows, in the order of the rows
RowLits(rows, tids) == rows2fmls(DefVars(rows), rows, tids, <<>>)

\* One iteration of the loop over fmls keeps the residue built so far, puts
\* a refused literal verbatim at its end and leaves an accepted one out;
\* after the last iteration fmls is exactly the residue.
ResidueStep ==
    (pc = "lin" /\ i' = i + 1) =>
        /\ \A k \in 1..j : g'.fmls[k] = g.fmls[k]
        /\ ~NextLin.ok => (j' = j + 1 /\ g'.fmls[j'] = g.fmls[i + 1])
        /\ NextLin.ok => j' = j
        /\ pc' = "vars" => Len(g'.fmls) = j'

\* imp::project runs from the selection to a return of true
ReturnsTrue == pc = "select" /\ pc' = "done" /\ inner' = "true"

\* C11: every literal the literal linearizer refuses is retained verbatim
\* in the returned lits, and the returned lits are the refused literals in
\* the order they were visited followed by the reified MBO rows in
\* get_live_rows order; no refused literal is dropped or reordered.
C11_ResidueVerbatimThenRows ==
    [][/\ ResidueStep
       /\ ReturnsTrue => g'.fmls = g.fmls \o RowLits(g'.rows, g.tids)]_vars

\* the substitution apply_projection performs on the returned list
Substituted(fmls, dfs) ==
    [k \in 1..Len(fmls) |-> Subst(fmls[k], BuildSubst(dfs, Len(dfs), <<>>))]

\* C11, amended: the residue the loop over fmls leaves is the refused
\* literals, verbatim and in the order they were visited.  A call that
\* returns true returns that residue followed by the reified rows; in
\* apply-projection mode, when that list and the definition list are both
\* non-empty, every formula of the list is returned with the definitions
\* substituted.
C11_ResidueThenRowsSubstituted ==
    [][/\ ResidueStep
       /\ ReturnsTrue =>
             LET all == g.fmls \o RowLits(g'.rows, g.tids)
             IN  g'.fmls = IF m_apply_projection /\ all # <<>> /\ result' # <<>>
                           THEN Substituted(all, result')
                           ELSE all]_vars

\* A call returned true with the refused children of an input conjunction,
\* in the order they were visited, followed by a reified row.
C11_Witness ==
    /\ ProjectDone /\ ret = "true" /\ ~m_apply_projection
    /\ j >= 2 /\ Len(g.fmls) > j
    /\ fmls_in # <<>> /\ fmls_in[1].op = "and"
    /\ g.fmls[1] = fmls_in[1].a[1] /\ g.fmls[2] = fmls_in[1].a[2]

\* ------------------------------------------------------------------- C12
\* rows2fmls on its own: the rows the kernel may hand back after a
\* projection over three MBO variables.  Variable 3 is a plain variable, or
\* is defined by a row of type mod / div (DefRowPool pairs the row with the
\* key of the variable; a defining row without variables is what is left
\* when its argument was eliminated).
z == Var(3)

CoeffPool ==
    {<<(<<1, c>>)>> : c \in {0 - 2, 0 - 1, 1, 2}}
    \cup {<<(<<1, c1>>), (<<2, c2>>)>> : c1 \in {0 - 1, 2}, c2 \in {0 - 1, 1}}
    \cup {<<(<<3, c>>)>> : c \in {0 - 1, 2}}
    \cup {<<(<<1, 1>>), (<<3, 0 - 1>>)>>}

RowPool ==
    {Row(cs, k, ty, IF ty = "divides" THEN 2 ELSE 0, 0) :
        cs \in CoeffPool, k \in (0 - 1)..1, ty \in {"le", "lt", "eq", "divides"}}

DefRowPool ==
    { <<Row(<<(<<1, 1>>)>>, 1, "mod", 2, 3), Mod(Add(x, Num(1)), Num(2))>>,
      <<Row(<<(<<2, 1>>)>>, 0, "div", 2, 3), Idiv(y, Num(2))>>,
      <<Row(<<>>, 0, "mod", 2, 3), Mod(z, Num(2))>>,
      <<Row(<<>>, 3, "div", 2, 3), Idiv(z, Num(2))>> }

InitRows ==
    /\ m_check_purified = TRUE
    /\ m_apply_projection = FALSE
    /\ canceled = FALSE
    /\ pc = "rows"
    /\ entry = "rows2fmls"
    /\ M = <<0, 0>>
    /\ vars_in = <<>>
    /\ fmls_in = <<>>
    /\ compute_def = FALSE
    /\ vs = <<>>
    /\ \E r \in RowPool :
          \/ g = [EmptyG(<<>>) EXCEPT !.tids = <<x, y, z>>, !.vals = <<0, 0, 0>>,
                                      !.rows = <<r>>]
          \/ \E d \in DefRowPool :
                g = [EmptyG(<<>>) EXCEPT !.tids = <<x, y, d[2]>>, !.vals = <<0, 0, 0>>,
                                         !.rows = <<d[1], r>>]
    /\ i = 0
    /\ j = 0
    /\ real_vars = <<>>
    /\ fmls_mark = {}
    /\ defs = <<>>
    /\ result = <<>>
    /\ inner = "none"
    /\ ret = "none"
    /\ polled = FALSE
    /\ opt = NoOpt

\* rows2fmls(def_vars, rows, index2expr, fmls) as project calls it
ReifyRows ==
    /\ pc = "rows"
    /\ g' = [g EXCEPT !.fmls = rows2fmls(DefVars(g.rows), g.rows, g.tids, g.fmls)]
    /\ pc' = "reified"
    /\ UNCHANGED <<Flags, canceled, CallVars, vs, LoopVars, SelVars, result, inner, ret,
                   polled, opt>>

SpecRows == InitRows /\ [][ReifyRows]_vars

\* the values of the three MBO variables when x, y, z have the values a
RowVals(rows, a) ==
    IF Len(rows) = 1 THEN a
    ELSE [a EXCEPT ![3] = IF rows[1].type = "mod"
                          THEN ModI(RowSum(rows[1].vars, a) + rows[1].coeff, rows[1].mod)
                          ELSE DivI(RowSum(rows[1].vars, a) + rows[1].coeff, rows[1].mod)]

\* C12: for every surviving row SUM c_i*v_i + k <op> 0 with op one of <=,
\* <, =, divides and at least one variable, the literal rows2fmls appends is
\* equivalent to the row for every assignment of the variables: sum <= -k,
\* sum < -k, sum = -k, (sum + k) mod m = 0; for a single variable with a
\* negative coefficient c and op one of <=, <, = it is the sign-normalized
\* (-c)*x >= k, (-c)*x > k, (-c)*x = k; rows of type mod / div are never
\* emitted as literals.
C12_RowLiteralEquivalent ==
    pc = "reified" =>
        LET r == g.rows[Len(g.rows)]
            lit == g.fmls[1]
            single == Len(r.vars) = 1 /\ r.vars[1][2] < 0 /\ r.type # "divides"
        IN  /\ Len(g.fmls) = 1
            /\ \A a \in [1..3 -> 0..MaxVal] :
                  IsTrueV(Eval(lit, a)) <=> RowSat(r, RowVals(g.rows, a))
            /\ lit.op = CASE r.type = "le" -> IF single THEN "ge" ELSE "le"
                          [] r.type = "lt" -> IF single THEN "gt" ELSE "lt"
                          [] OTHER -> "eq"
            /\ lit.a[2] = IF r.type = "divides" THEN Num(0)
                          ELSE IF single THEN Num(r.coeff) ELSE Num(0 - r.coeff)
            /\ r.type = "divides" => (lit.a[1].op = "mod" /\ lit.a[1].a[2] = Num(r.mod))

\* A sign-normalized literal over a variable that a mod row defines.
C12_Witness ==
    /\ pc = "reified" /\ Len(g.rows) = 2 /\ g.rows[1].type = "mod"
    /\ g.rows[2].type = "le" /\ g.rows[2].vars = <<(<<3, 0 - 1>>)>>
    /\ g.fmls = <<Ge(Mod(Add(x, Num(1)), Num(2)), Num(g.rows[2].coeff))>>

\* ------------------------------------------------------------------- C13
\* lit0 is a comparison a <= b, a < b, a >= b, a > b or an arithmetic
\* a = b, positive or negated once, whose sides hold no ite and no term
\* without a value.
IsLinCompare(lit0) ==
    LET lit == Stripped(lit0)
    IN  /\ \/ lit.op \in {"le", "lt", "ge", "gt"}
           \/ lit.op = "eq" /\ is_arith(lit.a[1])
        /\ \A e \in Subterms(lit) : e.op \notin {"ite", "und"}

\* the comparator the claim gives for the literal
ExpectedType(lit0) ==
    LET lit == Stripped(lit0)
        neg == lit0.op = "not"
    IN  CASE lit.op \in {"le", "ge"} -> IF neg THEN "lt" ELSE "le"
          [] lit.op \in {"lt", "gt"} -> IF neg THEN "le" ELSE "lt"
          [] OTHER -> IF neg THEN "lt" ELSE "eq"

\* the values of the MBO variables when x and y have the values a
KeyVals(tids, a) == [k \in 1..Len(tids) |-> Eval(tids[k], a)[2]]

\* the assignments the equivalence is checked over
Assignments == [1..2 -> (0 - MaxVal)..MaxVal]

\* C13: for every comparison literal a <= b, a < b, a >= b, a > b or
\* arithmetic a = b over linear terms, positive or negated once, the single
\* constraint SUM coeffs + c <op> 0 the literal linearizer submits implies
\* the literal for every assignment, and is equivalent to it except for a
\* negated equality (positive <=/>= give <=, negated <=/>= give <, positive
\* </> give <, negated </> give <=, positive = gives =); for a negated
\* a = b it is the strict inequality between the side with the smaller
\* model value and the side with the larger one.
C13_ConstraintMatchesLiteral ==
    [][(LiveLinStep /\ IsLinCompare(g.fmls[i + 1])) =>
          LET lit0 == g.fmls[i + 1]
              lit == Stripped(lit0)
              neq == lit0.op = "not" /\ lit.op = "eq"
              n == Len(g'.rows)
              row == g'.rows[n]
              holds(a) == RowSat(row, KeyVals(g'.tids, a))
              v1 == Eval(lit.a[1], M)[2]
              v2 == Eval(lit.a[2], M)[2]
              less(a, e1, e2) == Eval(e1, a)[2] < Eval(e2, a)[2]
          IN  /\ i' = i + 1 /\ j' = j
              /\ n > Len(g.rows)
              /\ \A k \in (Len(g.rows) + 1)..(n - 1) : g'.rows[k].type \in {"mod", "div"}
              /\ row.type = ExpectedType(lit0)
              /\ \A a \in Assignments : holds(a) => IsTrueV(Eval(lit0, a))
              /\ ~neq => \A a \in Assignments : IsTrueV(Eval(lit0, a)) => holds(a)
              /\ (neq /\ v1 < v2) =>
                    \A a \in Assignments : holds(a) <=> less(a, lit.a[1], lit.a[2])
              /\ (neq /\ v2 < v1) =>
                    \A a \in Assignments : holds(a) <=> less(a, lit.a[2], lit.a[1])]_vars

\* The negated equality x # y was linearized under a model with x < y.
C13_Witness ==
    /\ pc \in {"lin", "vars"} /\ entry = "project"
    /\ fmls_in # <<>> /\ fmls_in[1] = Not(Eq(x, y)) /\ i >= 1 /\ j = 0
    /\ M[1] < M[2]
    /\ g.rows # <<>> /\ g.rows[1].type = "lt" /\ Len(g.rows[1].vars) = 2

\* ------------------------------------------------------------------- C14
\* lit0 is a doubly negated linearizable comparison
IsDoubleNeg(lit0) ==
    lit0.op = "not" /\ lit0.a[1].op = "not" /\ IsLinCompare(lit0.a[1].a[1])

\* C14: double negation is stripped by the literal linearizer: a literal
\* not(not(l)), l a linearizable comparison, is linearized exactly as l is:
\* the same constraint is submitted and the literal is not left in the
\* residue.
C14_DoubleNegationStripped ==
    [][(LiveLinStep /\ IsDoubleNeg(g.fmls[i + 1])) =>
          /\ i' = i + 1 /\ j' = j
          /\ g'.rows = LinLit(g, g.fmls[i + 1].a[1].a[1], M, TRUE).g.rows]_vars

\* ------------------------------------------------------------------- C15
\* apply_projection on its own: definition lists for x, y, z with pairwise
\* different variables, each term a numeral or a variable plus one, and a
\* residue that mentions the three variables.
DefTermPool == {Num(1), Add(x, Num(1)), Add(y, Num(1)), Add(z, Num(1))}

DefLists ==
    LET vs3 == {x, y, z}
    IN  UNION {{[k \in 1..n |-> [var |-> f[k], term |-> t[k]]] :
                    f \in {h \in [1..n -> vs3] : \A k1, k2 \in 1..n : k1 # k2 => h[k1] # h[k2]},
                    t \in [1..n -> DefTermPool]} : n \in 1..3}

ResiduePool ==
    { <<Le(Add(x, y), z)>>,
      <<Ge(x, y), Le(y, Num(3))>>,
      <<Or(<<Lt(z, Num(0)), Pred(Mul(x, y))>>), Ge(z, Num(0))>> }

InitApply ==
    /\ m_check_purified = TRUE
    /\ m_apply_projection = TRUE
    /\ canceled = FALSE
    /\ pc = "apply"
    /\ entry = "apply_projection"
    /\ M \in {<<0, 1, 2>>, <<2, 1, 2>>}
    /\ vars_in = <<>>
    /\ fmls_in \in ResiduePool
    /\ compute_def = TRUE
    /\ vs = <<>>
    /\ g = EmptyG(fmls_in)
    /\ i = 0
    /\ j = 0
    /\ real_vars = <<>>
    /\ fmls_mark = {}
    /\ defs = <<>>
    /\ result \in DefLists
    /\ inner = "none"
    /\ ret = "none"
    /\ polled = FALSE
    /\ opt = NoOpt

\* apply_projection(eval, result, fmls) as project calls it
ApplyDefs ==
    /\ pc = "apply"
    /\ g' = [g EXCEPT !.fmls = apply_projection(result, g.fmls, M).fmls]
    /\ inner' = IF apply_projection(result, g.fmls, M).ok THEN "true" ELSE "false"
    /\ pc' = "applied"
    /\ UNCHANGED <<Flags, canceled, CallVars, vs, LoopVars, SelVars, result, ret, polled,
                   opt>>

SpecApply == InitApply /\ [][ApplyDefs]_vars

\* apply_projection returned true
Applied == pc = "applied" /\ inner = "true"

\* no formula of the residue mentions a variable the list defines
NoDefinedVarLeft ==
    \A k \in 1..Len(g.fmls) : \A d \in 1..Len(result) :
        result[d].var \notin Subterms(g.fmls[k])

\* C15: the definitions are substituted in reverse order so that later
\* definitions can reference earlier variables: for a list d_0..d_{n-1} in
\* which the term of d_i mentions only undefined variables and variables
\* defined at indices j < i, after apply_projection no formula of the
\* residue mentions a defined variable.
C15_LaterMayUseEarlier ==
    (Applied /\ \A d \in 1..Len(result) : \A l \in d..Len(result) :
                    result[l].var \notin Subterms(result[d].term))
        => NoDefinedVarLeft

\* C15, amended: the definitions are entered last to first, each with the
\* definitions after it already substituted into its term, so an earlier
\* definition can reference later variables: for a list in which the term
\* of d_i mentions only undefined variables and variables defined at
\* indices j > i, after an apply_projection that returns true no formula of
\* the residue mentions a defined variable.
C15_EarlierMayUseLater ==
    (Applied /\ \A d \in 1..Len(result) : \A l \in 1..d :
                    result[l].var \notin Subterms(result[d].term))
        => NoDefinedVarLeft

\* x := y + 1, y := z + 1, z := 1 was substituted into a residue that
\* mentioned x and y.
C15_Witness ==
    /\ Applied
    /\ result = << [var |-> x, term |-> Add(y, Num(1))],
                   [var |-> y, term |-> Add(z, Num(1))],
                   [var |-> z, term |-> Num(1)] >>
    /\ fmls_in = <<Ge(x, y), Le(y, Num(3))>>
    /\ g.fmls[1] = Ge(Add(Add(Num(1), Num(1)), Num(1)), Add(Num(1), Num(1)))

\* ------------------------------------------------------------------- C16
\* the comparison literal lit0 has been submitted: some row has its
\* comparator and holds exactly when lit0 is true
SubmittedRow(lit0) ==
    \E k \in 1..Len(g.rows) :
        /\ g.rows[k].type = ExpectedType(lit0)
        /\ \A a \in Assignments :
              RowSat(g.rows[k], KeyVals(g.tids, a)) <=> IsTrueV(Eval(lit0, a))

\* C16: maximize linearizes all constraints before it calls mbo.maximize:
\* every linearizable comparison literal reachable from the input fmls,
\* the literals the literal linearizer enqueues while the constraints are
\* visited included, has been submitted to MBO as a constraint when
\* mbo.maximize() is called.
C16_AllSubmittedBeforeMaximize ==
    (pc = "maxopt" /\ ~polled) =>
        \A k \in 1..Len(g.fmls) :
            (IsLinCompare(g.fmls[k]) /\ ~(g.fmls[k].op = "not" /\ g.fmls[k].a[1].op = "eq"))
                => SubmittedRow(g.fmls[k])

\* ------------------------------------------------------------------- C17
\* A step of LinearizeStep, told by its effect: the loop counter advances
\* or an exception leaves the loop.
LinearizeTaken == pc = "lin" /\ (i' = i + 1 \/ pc' = "thrown")

\* The loop over fmls is straight-line code of a running call: an iteration
\* that can be taken is taken.  This is WF_vars(LinearizeStep) written out,
\* with ENABLED LinearizeStep stated as pc = "lin" (an iteration is possible
\* exactly while the loop runs) and the steps of LinearizeStep told by
\* their effect.
LoopProgress == []<>(pc # "lin") \/ []<><<LinearizeTaken>>_vars

SpecLive == Init /\ [][Next]_vars /\ LoopProgress

\* One iteration visits the formula at position i + 1 and no other; the
\* formulas behind it stay where they are, formulas are only added at the
\* end, and the loop ends exactly when the position just visited is the
\* last one of fmls, formulas added by this visit included.
VisitsInOrder ==
    (pc = "lin" /\ pc' \in {"lin", "vars"} /\ i' # i) =>
        /\ i' = i + 1
        /\ pc' = "lin" =>
              /\ i' < Len(g'.fmls) /\ Len(g'.fmls) >= Len(g.fmls)
              /\ \A k \in (i + 2)..Len(g.fmls) : g'.fmls[k] = g.fmls[k]
              /\ SubSeq(g'.fmls, Len(g.fmls) + 1, Len(g'.fmls))
                    = SubSeq(NextLin.g.fmls, Len(g.fmls) + 1, Len(NextLin.g.fmls))
        /\ pc' = "vars" => i' = Len(NextLin.g.fmls)

\* C17: the linearization worklist of project terminates: although the
\* loop over fmls visits formulas appended during the loop, for every
\* finite input list of finite formulas the loop reaches the end of fmls
\* after finitely many steps (or an exception leaves it), and every formula
\* ever placed in fmls has been visited exactly once by then.
C17_WorklistTerminates ==
    /\ (pc = "lin") ~> (pc \in {"vars", "thrown"})
    /\ [][VisitsInOrder]_vars

\* The loop ended after visiting more formulas than the input had, some of
\* them refused.
C17_Witness ==
    /\ pc = "vars" /\ i > Len(fmls_in) + 1 /\ j >= 1 /\ Len(g.rows) >= 2
====
